---- MODULE Spec2Model ----
(***************************************************************************)
(* AXA Remote window opener: the protocol and state engine of              *)
(* axaremote/axaremote.py (class AXARemote).                               *)
(*                                                                         *)
(* The engine keeps an estimate (_status, _position) of a window that has  *)
(* no position sensor.  The estimate is recomputed lazily by _update()     *)
(* from the wall clock and the timestamp of the last acknowledged          *)
(* movement command, and corrected by sync_status() from the raw lock      *)
(* state the device reports.                                               *)
(*                                                                         *)
(* Time is counted in ticks of 1/TicksPerSecond seconds.  The engine only   *)
(* ever uses differences of clock readings, so the clock is read relative  *)
(* to the present: time.time() is 0 (`now`) and a stored timestamp is 0    *)
(* minus its age; the passing of d ticks moves the stored timestamp back   *)
(* by d.  A position is an exact rational number of percent, stored as an  *)
(* integer number of 1/PosDen percent (Pct(100) is 100.0), PosDen being    *)
(* chosen so that every interpolation formula of _update() is exact on the *)
(* tick grid.  AXARemote.connected (read by log messages only) is not part  *)
(* of the state.  The engine's methods see one round trip of               *)
(* _send_command as its outcome; the round trip itself (busy flag, echo,   *)
(* blank lines) is followed line by line in SpecSend, calibrate() in       *)
(* SpecCalibrate, two threads inside _send_command in SpecThreads, stop()  *)
(* during the locking phase in SpecStopLocking, several round trips with   *)
(* a device that answers late in SpecReplies, and the estimator under the  *)
(* profile of set_close_time() in SpecProfile.                             *)
(***************************************************************************)
EXTENDS Integers, Sequences, FiniteSets, TLC

\* ------------------------------------------------------------- bounds
\* Clock resolution: ticks per second.
TicksPerSecond == 5
\* A phase is followed for MaxSeconds seconds after its (backdated) start.
MaxSeconds == 60

\* ------------------------------------------------------- motion profile
\* Class attributes of AXARemote, in seconds.
UnlockSeconds == 5
OpenSeconds == 42
LockSeconds == 16

_time_unlock == UnlockSeconds * TicksPerSecond
_time_open == OpenSeconds * TicksPerSecond
_time_close == _time_open
_time_lock == LockSeconds * TicksPerSecond

\* --------------------------------------------------------- arithmetic
RECURSIVE GCD(_, _)
GCD(a, b) == IF b = 0 THEN a ELSE GCD(b, a % b)

LCM(a, b) == (a * b) \div GCD(a, b)

\* Positions are stored in units of 1/PosDen percent.
PosDen == LCM(LCM(_time_unlock, _time_open), LCM(_time_close, _time_lock))

Pct(p) == p * PosDen

\* Half percents, for targets such as 0.5 or 99.5.
HalfPct(h) == (h * PosDen) \div 2

\* Python's int(x) of a position: truncation towards zero, in whole percent.
IntPct(p) == IF p >= 0 THEN p \div PosDen ELSE -((-p) \div PosDen)

\* Exact quotient on the grid (rounded down where a value is off the grid).
Div(a, b) == IF a >= 0 THEN a \div b ELSE -((-a) \div b)

\* time.time(), read relative to the present.
now == 0

\* Python's None.
None == "None"

\* An optional number (a float or None): << >> is None, << v >> is v.
NoNumber == << >>

Some(v) == << v >>

Val(x) == x[1]

\* ------------------------------------------------------------- state
VARIABLES
    _status,            \* AXARemote._status
    _position,          \* AXARemote._position
    _target_position,   \* AXARemote._target_position, an optional number
    _timestamp,         \* AXARemote._timestamp, an optional number
    device,             \* AXARemote.device
    version,            \* AXARemote.version
    connection,         \* the transport: "closed", "open", or "None" once released
    op,                 \* the public method called last
    ret,                \* what that call returned (or the exception it raised)
    sent,               \* the commands that call wrote to the transport
    asked,              \* the position asked of set_position in a followed run
    raw_state,          \* the raw status sync_status compared in that call
    round_trip,         \* one call of _send_command followed line by line
    calibration,        \* one call of calibrate followed poll by poll
    callers,            \* two threads calling _send_command on the same engine
    replies,            \* the device's lines under way, over several round trips
    profile             \* _time_unlock, _time_open, _time_close, _time_lock in use

vars == << _status, _position, _target_position, _timestamp, device, version,
           connection, op, ret, sent, asked, raw_state, round_trip, calibration,
           callers, replies, profile >>

\* class AXAStatus
AXAStatus == { "STOPPED", "LOCKED", "UNLOCKING", "OPENING", "OPEN", "CLOSING", "LOCKING" }

\* class AXARawStatus
AXARawStatus == { "OK", "UNLOCKED", "STRONG_LOCKED", "WEAK_LOCKED", "DEVICE", "VERSION",
                  "COMMAND_NOT_IMPLEMENTED" }

\* What one call of _send_command can end with:
\*   a raw status  the line "<code> <text>" with a known code and a text,
\*   VERSION1      the line "261 <text>" whose text is a single word,
\*   TEXT          any other line (unknown code, no code, a single token),
\*   IOERR         the transport raises AXAConnectionError and stays open,
\*   LINKDOWN      the transport cannot be opened, or fails and closes,
\*   RAISE         EmptyResponseError or InvallidResponseError.
Outcomes == AXARawStatus \cup { "VERSION1", "TEXT", "IOERR", "LINKDOWN", "RAISE" }

\* The engine's fields as one record, the `self` the methods work on, with
\* the commands the call under way has written to the transport and the raw
\* status it has compared the estimate with (sync_status's raw_state).
Self ==
    [ status |-> _status, position |-> _position, target |-> _target_position,
      timestamp |-> _timestamp, device |-> device, version |-> version,
      connection |-> connection,
      sent |-> << >>, raw_state |-> None ]

\* A method's result: the engine after it and the value returned ("True",
\* "False", "None", "VALUE" for a [status, position] pair, or the name of
\* the exception that left the method).
Result(s, r) == [ s |-> s, ret |-> r ]

\* ----------------------------------------------------------- transport
\* AXARemote._is_initialised
_is_initialised(s) == s.version # None

\* AXARemote._connect: opens the transport when it is not open; there is
\* nothing to open once disconnect() has released the transport.
_connect(s, o) ==
    IF s.connection = "open" THEN Result(s, "True")
    ELSE IF s.connection = None THEN Result(s, "False")
    ELSE IF o = "LINKDOWN" THEN Result(s, "False")
    ELSE Result([s EXCEPT !.connection = "open"], "True")

\* AXARemote._split_response: the raw status of a response, None when the
\* response is None or does not start with a known code followed by a text.
_split_response(o) ==
    IF o \in AXARawStatus THEN o
    ELSE IF o = "VERSION1" THEN "VERSION"
    ELSE None

\* AXARemote._send_command with the device behaving as `o`: the engine after
\* the round trip, and the response (the outcome itself, None when the call
\* returns None, "RAISE" when it raises an AXARemoteError).
_send_command(s, command, o) ==
    LET c == _connect(s, o) IN
    IF c.ret = "False"
    THEN Result(c.s, None)
    ELSE LET w == [c.s EXCEPT !.sent = Append(@, command)] IN
         CASE o = "LINKDOWN" -> Result([w EXCEPT !.connection = "closed"], None)
           [] o = "IOERR" -> Result(w, None)
           [] OTHER -> Result(w, o)

\* --------------------------------------------------- movement commands
\* _open resuming from STOPPED at the start of the OPENING phase.
_open_FromZero(s, o) ==
    LET c == _send_command(s, "OPEN", o) IN
    IF c.ret = "RAISE" THEN Result(c.s, "RAISE")
    ELSE IF _split_response(c.ret) = "OK"
    THEN IF c.s.status = "LOCKED"
         THEN Result([c.s EXCEPT !.timestamp = Some(now), !.status = "UNLOCKING"], "True")
         ELSE IF c.s.status = "STOPPED"
         THEN Result([c.s EXCEPT !.timestamp = Some(now - _time_unlock),
                                 !.status = "OPENING"], "True")
         ELSE Result(c.s, "True")
    ELSE Result(c.s, "False")

\* AXARemote._open
_open(s, o) ==
    LET c == _send_command(s, "OPEN", o) IN
    IF c.ret = "RAISE" THEN Result(c.s, "RAISE")
    ELSE IF _split_response(c.ret) = "OK"
    THEN IF c.s.status = "LOCKED"
         THEN Result([c.s EXCEPT !.timestamp = Some(now), !.status = "UNLOCKING"], "True")
         ELSE IF c.s.status = "STOPPED"
         THEN Result([c.s EXCEPT
                        !.timestamp = Some(now - (_time_unlock
                                         + Div(_time_open * c.s.position, Pct(100)))),
                        !.status = "OPENING"], "True")
         ELSE Result(c.s, "True")
    ELSE Result(c.s, "False")

\* _stop without the early return in status LOCKING.
_stop_AlwaysSends(s, o) ==
    LET c == _send_command(s, "STOP", o) IN
    IF c.ret = "RAISE" THEN Result(c.s, "RAISE")
    ELSE IF _split_response(c.ret) = "OK"
    THEN Result([c.s EXCEPT
                   !.status = IF @ \in { "OPENING", "CLOSING" } THEN "STOPPED" ELSE @,
                   !.target = NoNumber], "True")
    ELSE Result(c.s, "False")

\* _stop turning every moving phase but LOCKING into STOPPED.
_stop_FromUnlocking(s, o) ==
    IF s.status = "LOCKING" THEN Result(s, "True")
    ELSE LET c == _send_command(s, "STOP", o) IN
         IF c.ret = "RAISE" THEN Result(c.s, "RAISE")
         ELSE IF _split_response(c.ret) = "OK"
         THEN Result([c.s EXCEPT
                        !.status = IF @ \in { "UNLOCKING", "OPENING", "CLOSING" }
                                   THEN "STOPPED" ELSE @,
                        !.target = NoNumber], "True")
         ELSE Result(c.s, "False")

\* AXARemote._stop
_stop(s, o) ==
    IF s.status = "LOCKING" THEN Result(s, "True")
    ELSE LET c == _send_command(s, "STOP", o) IN
         IF c.ret = "RAISE" THEN Result(c.s, "RAISE")
         ELSE IF _split_response(c.ret) = "OK"
         THEN Result([c.s EXCEPT
                        !.status = IF @ \in { "OPENING", "CLOSING" } THEN "STOPPED" ELSE @,
                        !.target = NoNumber], "True")
         ELSE Result(c.s, "False")

\* _close starting the phase before it has looked at the device's answer.
_close_Unchecked(s, o) ==
    LET c == _send_command(s, "CLOSE", o)
        m == IF c.s.status = "OPEN"
             THEN [c.s EXCEPT !.timestamp = Some(now), !.status = "CLOSING"]
             ELSE c.s
    IN  IF c.ret = "RAISE" THEN Result(c.s, "RAISE")
        ELSE IF _split_response(c.ret) = "OK" THEN Result(m, "True")
        ELSE Result(m, "False")

\* AXARemote._close
_close(s, o) ==
    LET c == _send_command(s, "CLOSE", o) IN
    IF c.ret = "RAISE" THEN Result(c.s, "RAISE")
    ELSE IF _split_response(c.ret) = "OK"
    THEN IF c.s.status = "OPEN"
         THEN Result([c.s EXCEPT !.timestamp = Some(now), !.status = "CLOSING"], "True")
         ELSE IF c.s.status = "STOPPED"
         THEN Result([c.s EXCEPT
                        !.timestamp = Some(now - Div(_time_close * (Pct(100) - c.s.position),
                                                     Pct(100))),
                        !.status = "CLOSING"], "True")
         ELSE Result(c.s, "True")
    ELSE Result(c.s, "False")

\* AXARemote.open
open(s, o) == _open([s EXCEPT !.target = Some(Pct(100))], o)

\* AXARemote.stop
stop(s, o) == _stop([s EXCEPT !.target = Some(s.position)], o)

\* AXARemote.close
close(s, o) == _close([s EXCEPT !.target = Some(Pct(0))], o)

\* ------------------------------------------------------------ estimator
\* _update, status UNLOCKING, t seconds after the phase start.
UpdateUnlocking(s, t) ==
    IF t < _time_unlock
    THEN [s EXCEPT !.position = t * 100 * (PosDen \div _time_unlock)]
    ELSE [s EXCEPT !.status = "OPENING"]

\* The OPENING formula counting from the start of the UNLOCKING phase.
UpdateOpening_FromUnlock(s, t) ==
    IF t > _time_unlock + _time_open
    THEN [s EXCEPT !.status = "OPEN", !.position = Pct(100)]
    ELSE [s EXCEPT !.position = t * 100 * (PosDen \div _time_open)]

\* The OPENING step ending the phase without setting the position.
UpdateOpening_StatusOnly(s, t) ==
    IF t > _time_unlock + _time_open
    THEN [s EXCEPT !.status = "OPEN"]
    ELSE [s EXCEPT !.position = (t - _time_unlock) * 100 * (PosDen \div _time_open)]

\* _update, status OPENING.
UpdateOpening(s, t) ==
    IF t > _time_unlock + _time_open
    THEN [s EXCEPT !.status = "OPEN", !.position = Pct(100)]
    ELSE [s EXCEPT !.position = (t - _time_unlock) * 100 * (PosDen \div _time_open)]

\* The CLOSING formula without its `100 -`.
UpdateClosing_Up(s, t) ==
    IF t < _time_close
    THEN [s EXCEPT !.position = t * 100 * (PosDen \div _time_close)]
    ELSE [s EXCEPT !.status = "LOCKING", !.target = NoNumber]

\* The CLOSING formula still applied at t = time_close.
UpdateClosing_Inclusive(s, t) ==
    IF t <= _time_close
    THEN [s EXCEPT !.position = Pct(100) - t * 100 * (PosDen \div _time_close)]
    ELSE [s EXCEPT !.status = "LOCKING", !.target = NoNumber]

\* _update, status CLOSING.
UpdateClosing(s, t) ==
    IF t < _time_close
    THEN [s EXCEPT !.position = Pct(100) - t * 100 * (PosDen \div _time_close)]
    ELSE [s EXCEPT !.status = "LOCKING", !.target = NoNumber]

\* The LOCKING formula counting down from the end of the CLOSING formula.
UpdateLocking_FromZero(s, t) ==
    IF t > _time_close + _time_lock
    THEN [s EXCEPT !.status = "LOCKED", !.position = Pct(0)]
    ELSE [s EXCEPT !.position = Pct(0) - (t - _time_close) * 100 * (PosDen \div _time_lock)]

\* _update, status LOCKING.
UpdateLocking(s, t) ==
    IF t > _time_close + _time_lock
    THEN [s EXCEPT !.status = "LOCKED", !.position = Pct(0)]
    ELSE [s EXCEPT !.position = Pct(100) - (t - _time_close) * 100 * (PosDen \div _time_lock)]

\* _update, the four phase steps in the order of the code.
UpdatePhases(s, t) ==
    LET s1 == IF s.status = "UNLOCKING" THEN UpdateUnlocking(s, t) ELSE s
        s2 == IF s1.status = "OPENING" THEN UpdateOpening(s1, t) ELSE s1
        s3 == IF s2.status = "CLOSING" THEN UpdateClosing(s2, t) ELSE s2
    IN  IF s3.status = "LOCKING" THEN UpdateLocking(s3, t) ELSE s3

\* The stop at the target with the two comparisons exchanged.
UpdateTarget_Exchanged(s, o) ==
    IF /\ s.target # NoNumber
       /\ \/ s.status = "OPENING" /\ s.position < Val(s.target)
          \/ s.status = "CLOSING" /\ s.position > Val(s.target)
    THEN _stop(s, o).s
    ELSE s

\* _update, the stop at the target position (an AXARemoteError is logged).
UpdateTarget(s, o) ==
    IF /\ s.target # NoNumber
       /\ \/ s.status = "OPENING" /\ s.position > Val(s.target)
          \/ s.status = "CLOSING" /\ s.position < Val(s.target)
    THEN _stop(s, o).s
    ELSE s

\* _update, status LOCKED, STOPPED or OPEN: move towards a pending target.
UpdateResting(s, o) ==
    IF s.target = NoNumber THEN s
    ELSE IF s.position < Val(s.target) THEN _open(s, o).s
    ELSE IF s.position > Val(s.target) THEN _close(s, o).s
    ELSE s

\* AXARemote._update
_update(s, o) ==
    IF s.status \in { "LOCKED", "STOPPED", "OPEN" } THEN Result(UpdateResting(s, o), "None")
    ELSE IF s.timestamp = NoNumber THEN Result(s, "TypeError")
    ELSE Result(UpdateTarget(UpdatePhases(s, now - Val(s.timestamp)), o), "None")

\* AXARemote.status
status(s, o) ==
    LET u == _update(s, o) IN
    IF u.ret = "TypeError" THEN u ELSE Result(u.s, "VALUE")

\* AXARemote.set_position (asserts 0.0 <= target_position <= 100.0)
set_position(s, target_position, o) ==
    LET r == IF IntPct(target_position) = 0 THEN close(s, o)
             ELSE IF IntPct(target_position) = 100 THEN open(s, o)
             ELSE IF IntPct(s.position) = IntPct(target_position) THEN Result(s, "None")
             ELSE IF s.position < target_position
             THEN _open([s EXCEPT !.target = Some(target_position)], o)
             ELSE IF s.position > target_position
             THEN _close([s EXCEPT !.target = Some(target_position)], o)
             ELSE Result(s, "None")
    IN  Result(r.s, IF r.ret = "RAISE" THEN "RAISE" ELSE "None")

\* AXARemote.restore_position (asserts 0.0 <= position <= 100.0)
restore_position(s, position) ==
    Result([s EXCEPT !.position = position,
                     !.status = IF position = Pct(0) THEN "LOCKED"
                                ELSE IF position = Pct(100) THEN "OPEN"
                                ELSE "STOPPED"], "None")

\* AXARemote.position: returns the stored position (`value`); _update is not
\* called.
position(s) == [ s |-> s, ret |-> "VALUE", value |-> s.position ]

\* ------------------------------------------------- connection lifecycle
\* The STATUS step taking every answer that is not a lock state as unlocked.
ConnectStatus_DefaultOpen(s, o) ==
    LET c == _send_command(s, "STATUS", o) IN
    IF c.ret = "RAISE" THEN Result(c.s, "False")
    ELSE IF _split_response(c.ret) \in { "STRONG_LOCKED", "WEAK_LOCKED" }
    THEN Result([c.s EXCEPT !.status = "LOCKED", !.position = Pct(0)], "True")
    ELSE Result([c.s EXCEPT !.status = "OPEN", !.position = Pct(100)], "True")

\* AXARemote.connect, the STATUS step: the first estimate.
ConnectStatus(s, o) ==
    LET c == _send_command(s, "STATUS", o) IN
    IF c.ret = "RAISE" THEN Result(c.s, "False")
    ELSE IF _split_response(c.ret) \in { "STRONG_LOCKED", "WEAK_LOCKED" }
    THEN Result([c.s EXCEPT !.status = "LOCKED", !.position = Pct(0)], "True")
    ELSE IF _split_response(c.ret) = "UNLOCKED"
    THEN Result([c.s EXCEPT !.status = "OPEN", !.position = Pct(100)], "True")
    ELSE Result(c.s, "False")

\* AXARemote.connect, the VERSION step and what follows it.  The firmware
\* version is the second word of the reply's text: a text of one word
\* raises IndexError, which connect does not catch.
ConnectVersion(s, o) ==
    LET c == _send_command(s, "VERSION", o) IN
    IF c.ret = "RAISE" THEN { Result(c.s, "False") }
    ELSE IF _split_response(c.ret) # "VERSION" THEN { Result(c.s, "False") }
    ELSE IF c.ret = "VERSION1" THEN { Result(c.s, "IndexError") }
    ELSE { ConnectStatus([c.s EXCEPT !.version = "set"], o3) : o3 \in Outcomes }

\* AXARemote.connect, the DEVICE step and what follows it.
ConnectDevice(s, o) ==
    LET c == _send_command(s, "DEVICE", o) IN
    IF c.ret = "RAISE" THEN { Result(c.s, "False") }
    ELSE IF _split_response(c.ret) # "DEVICE" THEN { Result(c.s, "False") }
    ELSE UNION { ConnectVersion([c.s EXCEPT !.device = "set"], o2) : o2 \in Outcomes }

\* connect without the early return of an initialised engine.
connect_Identifies(s) ==
    UNION { LET c == _connect(s, o) IN
            IF c.ret = "False" THEN { Result(c.s, "False") }
            ELSE ConnectDevice(c.s, o)
          : o \in Outcomes }

\* AXARemote.connect: every result the call can have, over the behaviours
\* of the link and of the device.
connect(s) ==
    UNION { LET c == _connect(s, o) IN
            IF c.ret = "False" THEN { Result(c.s, "False") }
            ELSE IF _is_initialised(c.s) THEN { Result(c.s, "True") }
            ELSE ConnectDevice(c.s, o)
          : o \in Outcomes }

\* -------------------------------------------------------- reconciliation
\* Only STRONG_LOCKED taken for a locked device.
Locked_StrongOnly(raw) == raw = "STRONG_LOCKED"

Locked(raw) == raw \in { "STRONG_LOCKED", "WEAK_LOCKED" }

\* The no-target comparison taking only STRONG_LOCKED for a locked device.
SyncNoTarget_StrongOnly(s, raw) ==
    IF s.status = "LOCKED" /\ raw # "STRONG_LOCKED"
    THEN [s EXCEPT !.timestamp = Some(now - _time_unlock), !.status = "OPENING",
                   !.position = Pct(0), !.target = NoNumber]
    ELSE IF s.status = "OPEN" /\ raw = "STRONG_LOCKED"
    THEN [s EXCEPT !.timestamp = Some(now - _time_close), !.status = "LOCKING",
                   !.position = Pct(0), !.target = NoNumber]
    ELSE [s EXCEPT !.target = NoNumber]

\* The no-target comparison starting the phase at the present.
SyncNoTarget_NotBackdated(s, raw) ==
    IF s.status = "LOCKED" /\ raw = "UNLOCKED"
    THEN [s EXCEPT !.timestamp = Some(now), !.status = "OPENING",
                   !.position = Pct(0), !.target = NoNumber]
    ELSE IF s.status = "OPEN" /\ Locked(raw)
    THEN [s EXCEPT !.timestamp = Some(now), !.status = "LOCKING",
                   !.position = Pct(0), !.target = NoNumber]
    ELSE [s EXCEPT !.target = NoNumber]

\* sync_status, no target position pending.
SyncNoTarget(s, raw) ==
    IF s.status = "LOCKED" /\ raw = "UNLOCKED"
    THEN [s EXCEPT !.timestamp = Some(now - _time_unlock), !.status = "OPENING",
                   !.position = Pct(0), !.target = NoNumber]
    ELSE IF s.status = "OPEN" /\ Locked(raw)
    THEN [s EXCEPT !.timestamp = Some(now - _time_close), !.status = "LOCKING",
                   !.position = Pct(0), !.target = NoNumber]
    ELSE [s EXCEPT !.target = NoNumber]

\* sync_status, a target position pending.
SyncTarget(s, raw) ==
    IF Locked(raw) /\ s.status \in { "UNLOCKING", "LOCKING" }
    THEN [s EXCEPT !.position = Pct(0)]
    ELSE IF Locked(raw) /\ s.status = "CLOSING"
    THEN [s EXCEPT !.timestamp = Some(now - _time_close), !.status = "LOCKING",
                   !.position = Pct(0), !.target = NoNumber]
    ELSE IF raw = "UNLOCKED" /\ s.status = "UNLOCKING"
    THEN [s EXCEPT !.status = "OPENING", !.position = Pct(0)]
    ELSE IF Locked(raw) /\ s.status \notin { "LOCKED", "UNLOCKING", "CLOSING", "LOCKING" }
    THEN [s EXCEPT !.status = "LOCKED", !.position = Pct(0)]
    ELSE IF raw = "UNLOCKED" /\ s.status = "LOCKED"
    THEN [s EXCEPT !.status = "OPEN", !.position = Pct(100)]
    ELSE s

\* sync_status, the comparison of the raw state with the presumed state.
Reconcile(s, raw) ==
    IF raw = None THEN s
    ELSE IF s.target = NoNumber THEN SyncNoTarget(s, raw)
    ELSE SyncTarget(s, raw)

\* sync_status, the STATUS round trip (raw_status) and the comparison; an
\* AXARemoteError is logged.
SyncRaw(s, o) ==
    LET c == _send_command(s, "STATUS", o) IN
    IF c.ret = "RAISE" THEN c.s
    ELSE [ Reconcile(c.s, _split_response(c.ret)) EXCEPT !.raw_state = _split_response(c.ret) ]

\* The results of `return self.status()`.
ReturnStatus(s) == { status(s, o) : o \in Outcomes }

\* AXARemote.sync_status: every result the call can have.
sync_status(s) ==
    UNION { IF c.ret = "IndexError" THEN { c }
            ELSE IF c.ret = "False" THEN ReturnStatus(c.s)
            ELSE UNION { ReturnStatus(x) : x \in { SyncRaw(c.s, o) : o \in Outcomes } }
          : c \in connect(s) }

\* disconnect closing the transport and keeping it.
disconnect_KeepsTransport(s) == Result([s EXCEPT !.connection = "closed"], "True")

\* AXARemote.disconnect: closes and releases the transport.
disconnect(s) == Result([s EXCEPT !.connection = None], "True")

\* No call of _send_command is followed.
NoRoundTrip ==
    [ pc |-> "idle", command |-> "", link |-> "up", busy |-> FALSE, waited |-> 0,
      wire |-> << >>, read |-> << >>, echo_received |-> FALSE, empty_line_count |-> 0,
      written |-> << >>, response |-> None, observed |-> None ]

\* No call of calibrate is followed.  time_open and time_close are the
\* instance's own _time_open and _time_close: none as long as the instance
\* reads the class attributes.
NoCalibration ==
    [ pc |-> "idle", elapsed |-> 0, turns |-> 0, ret |-> None, time_open |-> NoNumber,
      time_close |-> NoNumber ]

\* The threads that call _send_command.
Callers == { 1, 2 }

\* No thread has called _send_command: the flag AXARemote.busy is clear.
NoCallers ==
    [ busy |-> FALSE, pc |-> [ c \in Callers |-> "idle" ], waited |-> [ c \in Callers |-> 0 ],
      response |-> [ c \in Callers |-> None ] ]

\* No line of the device is under way: `call` counts the round trips,
\* `tags` gives for each line waiting in the transport (round_trip.wire) the
\* round trip whose command it echoes or answers, `due` holds the lines the
\* device has still to deliver, and `source` is the round trip that the
\* line returned last answers.
NoReplies == [ call |-> 0, tags |-> << >>, due |-> << >>, source |-> 0 ]

\* The motion profile of the class attributes, in ticks.
ClassProfile ==
    [ time_unlock |-> _time_unlock, time_open |-> _time_open,
      time_close |-> _time_close, time_lock |-> _time_lock ]

\* ------------------------------------------------------------ actions
Init ==
    /\ _status = None
    /\ _position = Pct(0)
    /\ _target_position = NoNumber
    /\ _timestamp = NoNumber
    /\ device = None
    /\ version = None
    /\ connection = "closed"
    /\ op = "init"
    /\ ret = None
    /\ sent = << >>
    /\ asked = NoNumber
    /\ raw_state = None
    /\ round_trip = NoRoundTrip
    /\ calibration = NoCalibration
    /\ callers = NoCallers
    /\ replies = NoReplies
    /\ profile = ClassProfile

\* The call `name` ends with result r.
Commit(name, r) ==
    /\ _status' = r.s.status
    /\ _position' = r.s.position
    /\ _target_position' = r.s.target
    /\ _timestamp' = r.s.timestamp
    /\ device' = r.s.device
    /\ version' = r.s.version
    /\ connection' = r.s.connection
    /\ sent' = r.s.sent
    /\ raw_state' = r.s.raw_state
    /\ op' = name
    /\ ret' = r.ret
    /\ UNCHANGED << round_trip, callers, replies, profile >>

\* The clock is read when the time since the phase start is one of these
\* numbers of seconds: every threshold _update compares with, a reading
\* inside each phase and one after the last threshold.
Milestones ==
    { UnlockSeconds \div 2, UnlockSeconds, OpenSeconds \div 2,
      UnlockSeconds + OpenSeconds \div 2, OpenSeconds, UnlockSeconds + OpenSeconds,
      OpenSeconds + LockSeconds \div 2, OpenSeconds + LockSeconds, MaxSeconds }

Moving == { "UNLOCKING", "OPENING", "CLOSING", "LOCKING" }

\* Positions a caller asks for or restores.
TargetPositions == { Pct(0), HalfPct(1), Pct(50), Pct(100) }

RestoredPositions == { Pct(0), Pct(50), Pct(100) }

Connect ==
    /\ \E r \in connect(Self) : Commit("connect", r)
    /\ UNCHANGED << asked, calibration >>

Open ==
    /\ \E r \in { open(Self, o) : o \in Outcomes } : Commit("open", r)
    /\ UNCHANGED << asked, calibration >>

Stop ==
    /\ \E r \in { stop(Self, o) : o \in Outcomes } : Commit("stop", r)
    /\ UNCHANGED << asked, calibration >>

Close ==
    /\ \E r \in { close(Self, o) : o \in Outcomes } : Commit("close", r)
    /\ UNCHANGED << asked, calibration >>

SetPosition ==
    /\ \E p \in TargetPositions :
           \E r \in { set_position(Self, p, o) : o \in Outcomes } :
               Commit("set_position", r)
    /\ UNCHANGED << asked, calibration >>

RestorePosition ==
    /\ \E p \in RestoredPositions : Commit("restore_position", restore_position(Self, p))
    /\ UNCHANGED << asked, calibration >>

SyncStatus ==
    /\ \E r \in sync_status(Self) : Commit("sync_status", r)
    /\ UNCHANGED << asked, calibration >>

Status ==
    /\ \E r \in { status(Self, o) : o \in Outcomes } : Commit("status", r)
    /\ UNCHANGED << asked, calibration >>

Position ==
    /\ Commit("position", position(Self))
    /\ UNCHANGED << asked, calibration >>

Disconnect ==
    /\ Commit("disconnect", disconnect(Self))
    /\ UNCHANGED << asked, calibration >>

\* The time since the phase start.
Age == now - Val(_timestamp)

\* d ticks pass.
Advance(d) ==
    /\ _timestamp' = Some(Val(_timestamp) - d)
    /\ op' = "tick"
    /\ ret' = None
    /\ sent' = << >>
    /\ raw_state' = None
    /\ UNCHANGED << _status, _position, _target_position, device, version, connection,
                    asked, round_trip, calibration, callers, replies, profile >>

\* The wall clock advances up to a milestone of the phase under way.  (While
\* the window rests no method reads the clock or the timestamp.)
Tick ==
    \E m \in Milestones :
        /\ _status \in Moving
        /\ _timestamp # NoNumber
        /\ m * TicksPerSecond > Age
        /\ Advance(m * TicksPerSecond - Age)

Next ==
    \/ Connect
    \/ Open
    \/ Stop
    \/ Close
    \/ SetPosition
    \/ RestorePosition
    \/ SyncStatus
    \/ Status
    \/ Position
    \/ Disconnect
    \/ Tick

Spec == Init /\ [][Next]_vars

\* ------------------------------------------- a followed set_position run
\* The engine after a first connect to a locked device.
InitLocked ==
    /\ _status = "LOCKED"
    /\ _position = Pct(0)
    /\ _target_position = NoNumber
    /\ _timestamp = NoNumber
    /\ device = "set"
    /\ version = "set"
    /\ connection = "open"
    /\ op = "connect"
    /\ ret = "True"
    /\ sent = << "DEVICE", "VERSION", "STATUS" >>
    /\ asked = NoNumber
    /\ raw_state = None
    /\ round_trip = NoRoundTrip
    /\ calibration = NoCalibration
    /\ callers = NoCallers
    /\ replies = NoReplies
    /\ profile = ClassProfile

\* Targets asked for, in half percents: 0.5, 1, 1.5, 50, 99 and 99.5.
AskedHalves == { 1, 2, 3, 100, 198, 199 }

\* The longest time between two polls, in ticks: 1% of the travel.
MaxPollGap == _time_open \div 100

\* set_position(p), which the device acknowledges.
Ask ==
    \E h \in AskedHalves :
        /\ asked = NoNumber
        /\ asked' = Some(HalfPct(h))
        /\ Commit("set_position", set_position(Self, HalfPct(h), "OK"))
        /\ UNCHANGED calibration

\* A status poll; the device acknowledges every command.
Poll ==
    /\ asked # NoNumber
    /\ Commit("status", status(Self, "OK"))
    /\ UNCHANGED << asked, calibration >>

\* Time passes while the window moves, a poll following within MaxPollGap.
Pass ==
    \E d \in 1 .. MaxPollGap :
        /\ asked # NoNumber
        /\ op # "tick"
        /\ _status \in Moving
        /\ Advance(d)

NextSetPosition == Ask \/ Poll \/ Pass

SpecSetPosition ==
    InitLocked /\ [][NextSetPosition]_vars /\ WF_vars(Poll) /\ WF_vars(Pass)

\* ------------------------------------ one round trip, line by line
\* _BUSY_TIMEOUT, in seconds.
_BUSY_TIMEOUT == 1
\* The busy wait sleeps 0.05 s at a time.
SleepsPerSecond == 20
\* Blank lines tolerated before the echo, and again before the response.
MaxEmptyLines == 5
\* The device delivers at most MaxLines lines; after them every readline
\* times out, which reads as a blank line.
MaxLines == 3

\* The exceptions _send_command raises.
SendErrors == { "TooBusyError", "EmptyResponseError", "InvallidResponseError" }

\* Commands as the callers write them.
Commands == { "STATUS", "status" }

\* str.upper, on the commands.
upper(command) == IF command = "status" THEN "STATUS" ELSE command

\* readline raises AXAConnectionError.
ReadError == "<AXAConnectionError>"

\* What one readline can give: a line (decoded), or the error.
WireLines == { "", " ", "STATUS", "status", "FOO", "210 UnLocked", ReadError }

\* str.strip(" \n\r"), on those lines.
strip(line) == IF line = " " THEN "" ELSE line

Wires == UNION { [ 1 .. n -> WireLines ] : n \in 0 .. MaxLines }

\* The transport as _send_command finds it: open (or opened by _connect),
\* impossible to open, open with a write that raises AXAConnectionError, or
\* open with a reset attempt that raises AXAConnectionError.
Links == { "up", "down", "write_fails", "reset_fails" }

\* _send_command, the _connect() guard.
SendStart(c) ==
    IF c.link = "down"
    THEN [c EXCEPT !.pc = "done", !.response = None]
    ELSE [c EXCEPT !.pc = "busy_wait", !.waited = 0]

\* The busy wait going on to write once the timeout has passed.
BusyWait_Barges(c) ==
    IF c.busy
    THEN IF c.waited > _BUSY_TIMEOUT * SleepsPerSecond
         THEN [c EXCEPT !.pc = "write"]
         ELSE [c EXCEPT !.waited = @ + 1]
    ELSE [c EXCEPT !.busy = TRUE, !.pc = "write"]

\* _send_command, one turn of the busy wait; the time since start_time is
\* the time slept.
BusyWait(c) ==
    IF c.busy
    THEN IF c.waited > _BUSY_TIMEOUT * SleepsPerSecond
         THEN [c EXCEPT !.pc = "done", !.response = "TooBusyError"]
         ELSE [c EXCEPT !.waited = @ + 1]
    ELSE [c EXCEPT !.busy = TRUE, !.pc = "write"]

\* The write whose failure leaves the busy flag set.
WriteCommand_KeepsBusy(c) ==
    LET w == [c EXCEPT !.command = upper(@), !.written = Append(@, upper(c.command))] IN
    IF c.link = "write_fails"
    THEN [w EXCEPT !.pc = "done", !.response = None]
    ELSE [w EXCEPT !.pc = "read"]

\* _send_command, the write of the uppercased command (and the flush).
WriteCommand(c) ==
    LET w == [c EXCEPT !.command = upper(@), !.written = Append(@, upper(c.command))] IN
    IF c.link = "write_fails"
    THEN [w EXCEPT !.pc = "done", !.response = None, !.busy = FALSE]
    ELSE [w EXCEPT !.pc = "read"]

\* The read loop taking the first non-blank line for the response.
ReadLine_NoEcho(c) ==
    IF c.empty_line_count > MaxEmptyLines
    THEN IF c.link = "reset_fails"
         THEN [c EXCEPT !.pc = "done", !.response = None, !.busy = FALSE,
                        !.written = Append(@, "")]
         ELSE [c EXCEPT !.pc = "done", !.response = "EmptyResponseError", !.busy = FALSE,
                        !.written = Append(@, "")]
    ELSE LET raw == IF c.wire = << >> THEN "" ELSE Head(c.wire)
             r == [c EXCEPT !.wire = IF @ = << >> THEN @ ELSE Tail(@),
                            !.read = Append(@, raw)]
         IN  IF raw = ReadError
             THEN [r EXCEPT !.pc = "done", !.response = None, !.busy = FALSE]
             ELSE IF strip(raw) = ""
             THEN [r EXCEPT !.empty_line_count = @ + 1]
             ELSE [r EXCEPT !.pc = "done", !.response = strip(raw), !.busy = FALSE]

\* The read loop with one count of blank lines for the whole call.
ReadLine_OneCount(c) ==
    IF c.empty_line_count > MaxEmptyLines
    THEN IF c.link = "reset_fails"
         THEN [c EXCEPT !.pc = "done", !.response = None, !.busy = FALSE,
                        !.written = Append(@, "")]
         ELSE [c EXCEPT !.pc = "done", !.response = "EmptyResponseError", !.busy = FALSE,
                        !.written = Append(@, "")]
    ELSE LET raw == IF c.wire = << >> THEN "" ELSE Head(c.wire)
             r == [c EXCEPT !.wire = IF @ = << >> THEN @ ELSE Tail(@),
                            !.read = Append(@, raw)]
         IN  IF raw = ReadError
             THEN [r EXCEPT !.pc = "done", !.response = None, !.busy = FALSE]
             ELSE IF strip(raw) = ""
             THEN [r EXCEPT !.empty_line_count = @ + 1]
             ELSE IF ~c.echo_received /\ strip(raw) = c.command
             THEN [r EXCEPT !.echo_received = TRUE]
             ELSE IF ~c.echo_received
             THEN [r EXCEPT !.pc = "done", !.response = "InvallidResponseError",
                            !.observed = strip(raw), !.busy = FALSE]
             ELSE [r EXCEPT !.pc = "done", !.response = strip(raw), !.busy = FALSE]

\* _send_command, one turn of the read loop.  After more than MaxEmptyLines
\* blank lines a blank line is written and the transport reset; an
\* AXAConnectionError of that attempt makes the call return None.
ReadLine(c) ==
    IF c.empty_line_count > MaxEmptyLines
    THEN IF c.link = "reset_fails"
         THEN [c EXCEPT !.pc = "done", !.response = None, !.busy = FALSE,
                        !.written = Append(@, "")]
         ELSE [c EXCEPT !.pc = "done", !.response = "EmptyResponseError", !.busy = FALSE,
                        !.written = Append(@, "")]
    ELSE LET raw == IF c.wire = << >> THEN "" ELSE Head(c.wire)
             r == [c EXCEPT !.wire = IF @ = << >> THEN @ ELSE Tail(@),
                            !.read = Append(@, raw)]
         IN  IF raw = ReadError
             THEN [r EXCEPT !.pc = "done", !.response = None, !.busy = FALSE]
             ELSE IF strip(raw) = ""
             THEN [r EXCEPT !.empty_line_count = @ + 1]
             ELSE IF ~c.echo_received /\ strip(raw) = c.command
             THEN [r EXCEPT !.echo_received = TRUE, !.empty_line_count = 0]
             ELSE IF ~c.echo_received
             THEN [r EXCEPT !.pc = "done", !.response = "InvallidResponseError",
                            !.observed = strip(raw), !.busy = FALSE]
             ELSE [r EXCEPT !.pc = "done", !.response = strip(raw), !.busy = FALSE]

\* A new engine about to send `command`, over every transport, every
\* sequence of lines the device delivers, with or without another command
\* in flight.
InitSend ==
    /\ _status = None
    /\ _position = Pct(0)
    /\ _target_position = NoNumber
    /\ _timestamp = NoNumber
    /\ device = None
    /\ version = None
    /\ connection = "closed"
    /\ op = "init"
    /\ ret = None
    /\ sent = << >>
    /\ asked = NoNumber
    /\ raw_state = None
    /\ calibration = NoCalibration
    /\ callers = NoCallers
    /\ replies = NoReplies
    /\ profile = ClassProfile
    /\ \E command \in Commands, link \in Links, busy \in BOOLEAN, wire \in Wires :
           round_trip = [NoRoundTrip EXCEPT !.command = command, !.link = link,
                                            !.busy = busy, !.wire = wire]

\* Everything but the round trip.
engine == << _status, _position, _target_position, _timestamp, device, version,
             connection, op, ret, sent, asked, raw_state, calibration, callers,
             replies, profile >>

Send ==
    /\ round_trip.pc = "idle"
    /\ round_trip' = SendStart(round_trip)
    /\ UNCHANGED engine

Wait ==
    /\ round_trip.pc = "busy_wait"
    /\ round_trip' = BusyWait(round_trip)
    /\ UNCHANGED engine

\* The command in flight ends: its `finally` clears the flag.
OtherCallEnds ==
    /\ round_trip.pc = "busy_wait"
    /\ round_trip.busy
    /\ round_trip' = [round_trip EXCEPT !.busy = FALSE]
    /\ UNCHANGED engine

Write ==
    /\ round_trip.pc = "write"
    /\ round_trip' = WriteCommand(round_trip)
    /\ UNCHANGED engine

Read ==
    /\ round_trip.pc = "read"
    /\ round_trip' = ReadLine(round_trip)
    /\ UNCHANGED engine

\* A readline that times out reads as a blank line, whatever the device
\* delivers afterwards.
ReadTimeout ==
    /\ round_trip.pc = "read"
    /\ round_trip' = ReadLine([round_trip EXCEPT !.wire = << "" >> \o @])
    /\ UNCHANGED engine

NextSend == Send \/ Wait \/ OtherCallEnds \/ Write \/ Read \/ ReadTimeout

SpecSend == InitSend /\ [][NextSend]_vars

\* --------------------------------------------- calibrate, poll by poll
\* The watchdog of calibrate, in seconds.
Watchdog == 120
\* A STATUS round trip of calibrate takes 1 to MaxRoundTrip seconds.
MaxRoundTrip == 2

\* The time since the start of the polling is followed up to ElapsedCap.
ElapsedCap == Watchdog + MaxRoundTrip

\* d seconds pass during a call: the timestamp ages (no further than the
\* MaxSeconds a phase is followed for).
Aged(s, d) ==
    [s EXCEPT !.timestamp =
        IF @ = NoNumber \/ Val(@) - d * TicksPerSecond < now - MaxSeconds * TicksPerSecond
        THEN @
        ELSE Some(Val(@) - d * TicksPerSecond)]

\* calibrate, after its close() has returned r: the polling starts when the
\* close was acknowledged.
CalibrateStart(cal, r) ==
    IF r = "True" THEN [cal EXCEPT !.pc = "polling", !.elapsed = 0]
    ELSE IF r = "RAISE" THEN [cal EXCEPT !.pc = "done", !.ret = "RAISE"]
    ELSE [cal EXCEPT !.pc = "done", !.ret = None]

\* calibrate, one turn of its loop: raw_status() has ended with `response`
\* ("RAISE" for an AXARemoteError, which is logged) t seconds after the start.
\* The turns are counted modulo 2.
CalibrateTurn(cal, response, t) ==
    LET c == [cal EXCEPT !.elapsed = t, !.turns = (@ + 1) % 2] IN
    IF response = "RAISE" THEN c
    ELSE IF Locked(_split_response(response))
    THEN [c EXCEPT !.pc = "done", !.time_open = Some(t), !.ret = "VALUE"]
    ELSE IF t > Watchdog
    THEN [c EXCEPT !.pc = "done", !.ret = None]
    ELSE c

\* The engine after a first connect to an unlocked device.
InitOpen ==
    /\ _status = "OPEN"
    /\ _position = Pct(100)
    /\ _target_position = NoNumber
    /\ _timestamp = NoNumber
    /\ device = "set"
    /\ version = "set"
    /\ connection = "open"
    /\ op = "connect"
    /\ ret = "True"
    /\ sent = << "DEVICE", "VERSION", "STATUS" >>
    /\ asked = NoNumber
    /\ raw_state = None
    /\ round_trip = NoRoundTrip
    /\ calibration = NoCalibration
    /\ callers = NoCallers
    /\ replies = NoReplies
    /\ profile = ClassProfile

\* calibrate is called: its close().
CalibrateClose ==
    /\ calibration.pc = "idle"
    /\ \E o \in Outcomes :
           LET r == close(Self, o) IN
           /\ Commit("close", r)
           /\ calibration' = CalibrateStart(calibration, r.ret)
    /\ UNCHANGED asked

\* One turn of the loop of calibrate, its raw_status() taking d seconds.
CalibratePoll ==
    /\ calibration.pc = "polling"
    /\ \E o \in Outcomes, d \in 1 .. MaxRoundTrip :
           LET c == _send_command(Self, "STATUS", o)
               t == IF calibration.elapsed + d > ElapsedCap THEN ElapsedCap
                    ELSE calibration.elapsed + d
           IN  /\ Commit("raw_status",
                         Result(Aged(c.s, d), IF c.ret = "RAISE" THEN "RAISE" ELSE "VALUE"))
               /\ calibration' = CalibrateTurn(calibration, c.ret, t)
    /\ UNCHANGED asked

NextCalibrate == CalibrateClose \/ CalibratePoll

\* calibrate runs on once called: nothing but its own loop holds it.
SpecCalibrate ==
    InitOpen /\ [][NextCalibrate]_vars /\ WF_vars(CalibrateClose) /\ WF_vars(CalibratePoll)

\* ------------------------------- two threads calling _send_command
\* Thread c calls _send_command on a connected engine: _connect() succeeds
\* and start_time is taken.
ThreadCall(t, c) ==
    [t EXCEPT !.pc[c] = "test", !.waited[c] = 0, !.response[c] = None]

\* The test of `while self.busy is True`: the thread sleeps and tests again,
\* raises TooBusyError, or leaves the loop.
ThreadTest(t, c) ==
    IF t.busy
    THEN IF t.waited[c] > _BUSY_TIMEOUT * SleepsPerSecond
         THEN [t EXCEPT !.pc[c] = "done", !.response[c] = "TooBusyError"]
         ELSE [t EXCEPT !.waited[c] = @ + 1]
    ELSE [t EXCEPT !.pc[c] = "set"]

\* `self.busy = True`, the statement after the loop.
ThreadSet(t, c) == [t EXCEPT !.busy = TRUE, !.pc[c] = "write"]

\* The write of the command: from here on the command is in flight.  A write
\* that raises AXAConnectionError ends the call (None, the flag cleared).
ThreadWrite(t, c, link) ==
    IF link = "write_fails"
    THEN [t EXCEPT !.pc[c] = "done", !.response[c] = None, !.busy = FALSE]
    ELSE [t EXCEPT !.pc[c] = "read"]

\* The read loop ends (a response, an error or None): `finally` clears the
\* flag.
ThreadRead(t, c, response) ==
    [t EXCEPT !.pc[c] = "done", !.response[c] = response, !.busy = FALSE]

\* The engine after a first connect to a locked device, no thread inside
\* _send_command.
InitThreads ==
    /\ _status = "LOCKED"
    /\ _position = Pct(0)
    /\ _target_position = NoNumber
    /\ _timestamp = NoNumber
    /\ device = "set"
    /\ version = "set"
    /\ connection = "open"
    /\ op = "connect"
    /\ ret = "True"
    /\ sent = << "DEVICE", "VERSION", "STATUS" >>
    /\ asked = NoNumber
    /\ raw_state = None
    /\ round_trip = NoRoundTrip
    /\ calibration = NoCalibration
    /\ callers = NoCallers
    /\ replies = NoReplies
    /\ profile = ClassProfile

\* Everything but the threads.
single == << _status, _position, _target_position, _timestamp, device, version,
             connection, op, ret, sent, asked, raw_state, round_trip, calibration,
             replies, profile >>

Call(c) ==
    /\ callers.pc[c] = "idle"
    /\ callers' = ThreadCall(callers, c)
    /\ UNCHANGED single

TestBusy(c) ==
    /\ callers.pc[c] = "test"
    /\ callers' = ThreadTest(callers, c)
    /\ UNCHANGED single

SetBusy(c) ==
    /\ callers.pc[c] = "set"
    /\ callers' = ThreadSet(callers, c)
    /\ UNCHANGED single

WriteInFlight(c) ==
    /\ callers.pc[c] = "write"
    /\ \E link \in { "up", "write_fails" } : callers' = ThreadWrite(callers, c, link)
    /\ UNCHANGED single

ReadInFlight(c) ==
    /\ callers.pc[c] = "read"
    /\ \E response \in { "VALUE", "EmptyResponseError", "InvallidResponseError", None } :
           callers' = ThreadRead(callers, c, response)
    /\ UNCHANGED single

\* The call has ended; the thread can call again.
Return(c) ==
    /\ callers.pc[c] = "done"
    /\ callers' = [callers EXCEPT !.pc[c] = "idle"]
    /\ UNCHANGED single

NextThreads ==
    \E c \in Callers :
        \/ Call(c)
        \/ TestBusy(c)
        \/ SetBusy(c)
        \/ WriteInFlight(c)
        \/ ReadInFlight(c)
        \/ Return(c)

SpecThreads == InitThreads /\ [][NextThreads]_vars

\* ------------------------------------ stop() while the window locks
\* The engine after close() from OPEN and the poll made time_close later:
\* LOCKING has begun, no target is pending.
InitLocking ==
    /\ _status = "LOCKING"
    /\ _position = Pct(100)
    /\ _target_position = NoNumber
    /\ _timestamp = Some(now - _time_close)
    /\ device = "set"
    /\ version = "set"
    /\ connection = "open"
    /\ op = "status"
    /\ ret = "VALUE"
    /\ sent = << >>
    /\ asked = NoNumber
    /\ raw_state = None
    /\ round_trip = NoRoundTrip
    /\ calibration = NoCalibration
    /\ callers = NoCallers
    /\ replies = NoReplies
    /\ profile = ClassProfile

\* stop() is called while the status is LOCKING.
StopCalled ==
    /\ _status = "LOCKING"
    /\ Commit("stop", stop(Self, "OK"))
    /\ UNCHANGED << asked, calibration >>

\* A status() poll; the device acknowledges whatever command it is sent.
StatusPoll ==
    /\ Commit("status", status(Self, "OK"))
    /\ UNCHANGED << asked, calibration >>

\* A sync_status() poll of the connected engine, the device reporting a
\* locked raw status (and acknowledging whatever command it is sent).
SyncPoll ==
    /\ \E raw \in { "STRONG_LOCKED", "WEAK_LOCKED" } :
           Commit("sync_status", status(SyncRaw(Self, raw), "OK"))
    /\ UNCHANGED << asked, calibration >>

\* Time passes while the estimate moves, a poll or a stop() following
\* within MaxPollGap; a phase is followed for MaxSeconds seconds.
Elapse ==
    \E d \in 1 .. MaxPollGap :
        /\ op # "tick"
        /\ _status \in Moving
        /\ Age + d <= MaxSeconds * TicksPerSecond
        /\ Advance(d)

NextStopLocking == StopCalled \/ StatusPoll \/ SyncPoll \/ Elapse

SpecStopLocking == InitLocking /\ [][NextStopLocking]_vars

\* --------------------------- several round trips with a late device
\* The round trips followed one after the other.
MaxCalls == 3

\* The commands sent in those round trips.
RepliedCommands == { "STATUS", "OPEN" }

\* What the device answers to a command, after having echoed it.
Answer(command) == IF command = "STATUS" THEN "210 UnLocked" ELSE "200 OK"

\* AXAConnection.reset: the lines that have arrived are discarded.
reset(c) == [c EXCEPT !.wire = << >>]

\* _send_command up to its first readline, on an open transport with no
\* other call under way; the lines waiting in the transport stay there.
SendCommand(c, command) ==
    WriteCommand(BusyWait(SendStart([NoRoundTrip EXCEPT !.command = command,
                                                        !.wire = c.wire])))

\* The engine after a first connect, nothing waiting in the transport.
InitReplies ==
    /\ _status = "OPEN"
    /\ _position = Pct(100)
    /\ _target_position = NoNumber
    /\ _timestamp = NoNumber
    /\ device = "set"
    /\ version = "set"
    /\ connection = "open"
    /\ op = "connect"
    /\ ret = "True"
    /\ sent = << "DEVICE", "VERSION", "STATUS" >>
    /\ asked = NoNumber
    /\ raw_state = None
    /\ round_trip = NoRoundTrip
    /\ calibration = NoCalibration
    /\ callers = NoCallers
    /\ replies = NoReplies
    /\ profile = ClassProfile

\* Everything but the round trip and the device's lines.
others == << _status, _position, _target_position, _timestamp, device, version,
             connection, op, ret, sent, asked, raw_state, calibration, callers, profile >>

\* A round trip begins: the command is written, and the device will echo it
\* and then answer it.
Invoke ==
    /\ round_trip.pc \in { "idle", "done" }
    /\ replies.call < MaxCalls
    /\ \E command \in RepliedCommands :
           /\ round_trip' = SendCommand(round_trip, command)
           /\ replies' = [replies EXCEPT
                             !.call = @ + 1,
                             !.source = 0,
                             !.due = @ \o << [ text |-> command, call |-> replies.call + 1 ],
                                            [ text |-> Answer(command),
                                              call |-> replies.call + 1 ] >>]
    /\ UNCHANGED others

\* The next line of the device arrives at the transport.
Deliver ==
    /\ replies.due # << >>
    /\ round_trip' = [round_trip EXCEPT !.wire = Append(@, Head(replies.due).text)]
    /\ replies' = [replies EXCEPT !.tags = Append(@, Head(replies.due).call),
                                  !.due = Tail(@)]
    /\ UNCHANGED others

\* One turn of the read loop: a line waiting in the transport is read, or
\* the readline times out; after more than MaxEmptyLines blank lines the
\* transport is reset.
ReadReply ==
    /\ round_trip.pc = "read"
    /\ LET r == ReadLine(round_trip) IN
       IF round_trip.empty_line_count > MaxEmptyLines
       THEN /\ round_trip' = reset(r)
            /\ replies' = [replies EXCEPT !.tags = << >>]
       ELSE /\ round_trip' = r
            /\ replies' =
                   IF round_trip.wire = << >> THEN replies
                   ELSE [replies EXCEPT
                           !.tags = Tail(@),
                           !.source = IF r.pc = "done" /\ r.response \notin SendErrors \cup { None }
                                      THEN Head(replies.tags)
                                      ELSE @]
    /\ UNCHANGED others

NextReplies == Invoke \/ Deliver \/ ReadReply

SpecReplies == InitReplies /\ [][NextReplies]_vars

\* ------------------------------------- the profile of set_close_time
\* Close times a caller sets, in seconds.
CloseTimes == { 10, 20 }

\* AXARemote.set_close_time (asserts close_time > 0): the profile it leaves.
set_close_time(close_time) ==
    [ time_unlock |-> 0, time_open |-> 0, time_close |-> close_time, time_lock |-> 0 ]

\* _update under the profile p, the four phase steps in the order of the
\* code, t after the phase start.  Each quotient is computed before the
\* comparison that follows it: a division by a time of 0 leaves the method
\* with ZeroDivisionError and the assignments made so far.
UpdatePhasesProfile(p, s, t) ==
    LET s1 == IF s.status # "UNLOCKING" THEN s
              ELSE IF t < p.time_unlock
              THEN [s EXCEPT !.position = (t * 100 * PosDen) \div p.time_unlock]
              ELSE [s EXCEPT !.status = "OPENING"]
        s2 == IF s1.status # "OPENING" \/ p.time_open = 0 THEN s1
              ELSE IF t > p.time_unlock + p.time_open
              THEN [s1 EXCEPT !.status = "OPEN", !.position = Pct(100)]
              ELSE [s1 EXCEPT !.position =
                                  ((t - p.time_unlock) * 100 * PosDen) \div p.time_open]
        s3 == IF s2.status # "CLOSING" THEN s2
              ELSE IF t < p.time_close
              THEN [s2 EXCEPT !.position =
                                  Pct(100) - (t * 100 * PosDen) \div p.time_close]
              ELSE [s2 EXCEPT !.status = "LOCKING", !.target = NoNumber]
        s4 == IF s3.status # "LOCKING" \/ p.time_lock = 0 THEN s3
              ELSE IF t > p.time_close + p.time_lock
              THEN [s3 EXCEPT !.status = "LOCKED", !.position = Pct(0)]
              ELSE [s3 EXCEPT !.position =
                                  Pct(100) - ((t - p.time_close) * 100 * PosDen) \div p.time_lock]
    IN  IF s1.status = "OPENING" /\ p.time_open = 0 THEN Result(s1, "ZeroDivisionError")
        ELSE IF s3.status = "LOCKING" /\ p.time_lock = 0 THEN Result(s3, "ZeroDivisionError")
        ELSE Result(s4, "None")

\* AXARemote._update under the profile p.
UpdateProfile(p, s, o) ==
    IF s.status \in { "LOCKED", "STOPPED", "OPEN" } THEN Result(UpdateResting(s, o), "None")
    ELSE IF s.timestamp = NoNumber THEN Result(s, "TypeError")
    ELSE LET u == UpdatePhasesProfile(p, s, now - Val(s.timestamp)) IN
         IF u.ret = "ZeroDivisionError" THEN u
         ELSE Result(UpdateTarget(u.s, o), "None")

\* AXARemote.status under the profile p.
StatusProfile(p, s, o) ==
    LET u == UpdateProfile(p, s, o) IN
    IF u.ret = "None" THEN Result(u.s, "VALUE") ELSE u

\* A connected engine at rest, locked or open, with the class profile.
InitProfile ==
    /\ \E r \in RestoredPositions \ { Pct(50) } :
           /\ _position = r
           /\ _status = IF r = Pct(0) THEN "LOCKED" ELSE "OPEN"
    /\ _target_position = NoNumber
    /\ _timestamp = NoNumber
    /\ device = "set"
    /\ version = "set"
    /\ connection = "open"
    /\ op = "connect"
    /\ ret = "True"
    /\ sent = << >>
    /\ asked = NoNumber
    /\ raw_state = None
    /\ round_trip = NoRoundTrip
    /\ calibration = NoCalibration
    /\ callers = NoCallers
    /\ replies = NoReplies
    /\ profile = ClassProfile

\* set_close_time(c) is called.
SetCloseTime ==
    /\ \E c \in CloseTimes : profile' = set_close_time(c * TicksPerSecond)
    /\ op' = "set_close_time"
    /\ ret' = None
    /\ sent' = << >>
    /\ raw_state' = None
    /\ UNCHANGED << _status, _position, _target_position, _timestamp, device, version,
                    connection, asked, round_trip, calibration, callers, replies >>

\* open() and close(), the device acknowledging.  (Without stop() and with
\* the targets 100.0 and 0.0 the status is never STOPPED, the one status in
\* which _open and _close read the profile.)
OpenAcknowledged ==
    /\ Commit("open", open(Self, "OK"))
    /\ UNCHANGED << asked, calibration >>

CloseAcknowledged ==
    /\ Commit("close", close(Self, "OK"))
    /\ UNCHANGED << asked, calibration >>

\* A status() poll under the profile in use.
StatusProfiled ==
    /\ Commit("status", StatusProfile(profile, Self, "OK"))
    /\ UNCHANGED << asked, calibration >>

\* Seconds pass while the estimate moves; a phase is followed for
\* MaxSeconds seconds.
SecondsPass ==
    \E d \in { 1, 5 } :
        /\ _status \in Moving
        /\ Age + d * TicksPerSecond <= MaxSeconds * TicksPerSecond
        /\ Advance(d * TicksPerSecond)

NextProfile ==
    SetCloseTime \/ OpenAcknowledged \/ CloseAcknowledged \/ StatusProfiled \/ SecondsPass

SpecProfile == InitProfile /\ [][NextProfile]_vars

\* ------------------------------------------------------------- claims
\* A status() poll is the step under way.
Polled == op' = "status"

Abs(x) == IF x >= 0 THEN x ELSE -x

\* C1: in every reachable state the estimated position lies between 0.0
\* and 100.0.
C1_PositionInRange == Pct(0) <= _position /\ _position <= Pct(100)

\* C2: a status() poll made exactly time_unlock + time_open after the start
\* of an opening run reports OPEN and 100.0.
C2_OpenAtFullOpeningTime ==
    [][ ( /\ Polled
          /\ _status \in { "UNLOCKING", "OPENING" }
          /\ Age = _time_unlock + _time_open )
        => ( _status' = "OPEN" /\ _position' = Pct(100) ) ]_vars

\* C3, as claimed: a status() poll made exactly time_close after the start
\* of a closing run reports LOCKING with a position within 1 of 0.0.
C3_LockingStartsAtZero ==
    [][ ( Polled /\ _status = "CLOSING" /\ Age = _time_close )
        => ( _status' = "LOCKING" /\ Abs(_position') <= Pct(1) ) ]_vars

\* C3, amended: a status() poll made exactly time_close after the start of
\* a closing run reports LOCKING with position 100.0, from where the locking
\* phase counts down.
C3_LockingStartsAtHundred ==
    [][ ( Polled /\ _status = "CLOSING" /\ Age = _time_close )
        => ( _status' = "LOCKING" /\ _position' = Pct(100) ) ]_vars

C3_Witness ==
    /\ op = "status"
    /\ _status = "LOCKING"
    /\ Age = _time_close
    /\ _position = Pct(100)
    /\ _target_position = NoNumber

\* The place of a status in the cycle LOCKED, UNLOCKING, OPENING, OPEN and
\* in the cycle OPEN, CLOSING, LOCKING, LOCKED.
OpeningRank(st) ==
    CASE st = "LOCKED" -> 0 [] st = "UNLOCKING" -> 1 [] st = "OPENING" -> 2
      [] st = "OPEN" -> 3 [] OTHER -> -1

ClosingRank(st) ==
    CASE st = "OPEN" -> 0 [] st = "CLOSING" -> 1 [] st = "LOCKING" -> 2
      [] st = "LOCKED" -> 3 [] OTHER -> -1

\* C4: in a cycle driven by the clock alone (open() towards 100.0, then
\* close() towards 0.0, polls only) the polled status never goes backwards,
\* and the poll made exactly time_close + time_lock after the close reports
\* LOCKED and 0.0.
C4_FullCycleByTime ==
    [][ Polled =>
        /\ ( _status \in { "UNLOCKING", "OPENING" } /\ _target_position = Some(Pct(100)) )
           => OpeningRank(_status') >= OpeningRank(_status)
        /\ ( _status \in { "CLOSING", "LOCKING" }
             /\ _target_position \in { Some(Pct(0)), NoNumber } )
           => ClosingRank(_status') >= ClosingRank(_status)
        /\ ( _status \in { "CLOSING", "LOCKING" } /\ Age = _time_close + _time_lock )
           => ( _status' = "LOCKED" /\ _position' = Pct(0) ) ]_vars

\* C5, as claimed: between two polls of an opening run the position never
\* decreases, and between two polls of a closing run it never increases.
C5_Monotonic ==
    [][ Polled =>
        /\ _status \in { "UNLOCKING", "OPENING" } => _position' >= _position
        /\ _status \in { "CLOSING", "LOCKING" } => _position' <= _position ]_vars

\* C5, amended: between two polls of an opening run the position never
\* decreases except at the poll that ends the UNLOCKING phase (where it
\* restarts from the OPENING formula), and between two polls of a closing
\* run it never increases except at the poll that ends the CLOSING phase
\* (where it restarts from 100.0 for the LOCKING phase).
C5_MonotonicWithinPhase ==
    [][ Polled =>
        /\ ( _status = "OPENING" \/ (_status = "UNLOCKING" /\ _status' = "UNLOCKING") )
           => _position' >= _position
        /\ ( _status = "LOCKING" \/ (_status = "CLOSING" /\ _status' = "CLOSING") )
           => _position' <= _position ]_vars

C5_Witness ==
    /\ op = "status"
    /\ _status = "CLOSING"
    /\ Age = _time_close \div 2
    /\ _position = Pct(50)

\* The target a closing run is asked, within 1 of which it must halt.
NearAsked == Abs(_position - Val(asked)) <= Pct(1)

\* The run has halted: the window rests and the last poll wrote nothing.
Halted == op = "status" /\ sent = << >> /\ _status \notin Moving

\* C6, as claimed: set_position(p) for 0 < p < 100 from LOCKED/0.0, every
\* command acknowledged and polls at least once per 1% of travel,
\* eventually halts with status STOPPED and the position within 1 of p, and
\* no command is sent afterwards.
C6_SetPositionHalts ==
    /\ [](asked # NoNumber => <>(_status = "STOPPED"))
    /\ []((asked # NoNumber /\ _status = "STOPPED") => NearAsked)
    /\ [][(asked # NoNumber /\ _status = "STOPPED") => sent' = << >>]_vars

\* C6, amended: the same for 1 <= p < 100.  (A target below 1 is taken as a
\* request to close, which leaves a locked window LOCKED.)
C6_SetPositionHaltsFromOne ==
    /\ []((asked # NoNumber /\ Val(asked) >= Pct(1)) => <>(_status = "STOPPED"))
    /\ []((asked # NoNumber /\ Val(asked) >= Pct(1) /\ _status = "STOPPED") => NearAsked)
    /\ [][(asked # NoNumber /\ Val(asked) >= Pct(1) /\ _status = "STOPPED")
          => sent' = << >>]_vars

C6_Witness ==
    /\ asked = Some(HalfPct(199))
    /\ _status = "STOPPED"
    /\ _target_position = NoNumber
    /\ Halted

\* C7: stop() in status LOCKING returns success, writes no command and
\* leaves status and timestamp as they were, and a later poll past
\* time_close + time_lock completes the locking phase to LOCKED and 0.0.
C7_StopWhileLocking ==
    [][ /\ ( op' = "stop" /\ _status = "LOCKING" )
           => ( /\ ret' = "True"
                /\ sent' = << >>
                /\ _status' = "LOCKING"
                /\ _timestamp' = _timestamp )
        /\ ( Polled /\ _status = "LOCKING" /\ Age > _time_close + _time_lock )
           => ( _status' = "LOCKED" /\ _position' = Pct(0) ) ]_vars

C7_Witness ==
    /\ op = "stop"
    /\ ret = "True"
    /\ sent = << >>
    /\ _status = "LOCKING"
    /\ _target_position = Some(_position)

\* The device does not acknowledge: any answer but OK, or none at all.
NotOK == { o \in Outcomes : o # "RAISE" /\ _split_response(o) # "OK" }

\* The estimate is left as it is by the call that returns r.
SameEstimate(r) ==
    /\ r.s.status = _status
    /\ r.s.position = _position
    /\ r.s.timestamp = _timestamp

C9_ConnectInitialises ==
    /\ ( op = "connect" /\ ret = "True" )
       => ( device # None /\ version # None /\ _status \in AXAStatus )
    /\ version = None
       => \A o \in Outcomes :
              /\ _split_response(o) # "DEVICE"
                 => \A r \in ConnectDevice(Self, o) : r.ret # "True"
              /\ _split_response(o) # "VERSION"
                 => \A r \in ConnectVersion(Self, o) : r.ret # "True"

\* The STATUS step of a first connect (the transport is open, DEVICE and
\* VERSION have been answered), the device answering o.
FirstStatus(o) ==
    ConnectStatus([Self EXCEPT !.device = "set", !.version = "set", !.connection = "open"], o)

\* The answers the device can give to STATUS (a line, whatever it says).
Answers == AXARawStatus \cup { "VERSION1", "TEXT" }

\* C10, as claimed: on a first connect, STRONG_LOCKED or WEAK_LOCKED gives
\* LOCKED and 0.0, and UNLOCKED or any other answer gives OPEN and 100.0,
\* connect succeeding.
C10_FirstEstimate ==
    version = None
    => \A o \in Answers :
           /\ FirstStatus(o).ret = "True"
           /\ Locked(o)
              => ( FirstStatus(o).s.status = "LOCKED" /\ FirstStatus(o).s.position = Pct(0) )
           /\ ~Locked(o)
              => ( FirstStatus(o).s.status = "OPEN"
                   /\ FirstStatus(o).s.position = Pct(100) )

\* C10, amended: on a first connect, STRONG_LOCKED or WEAK_LOCKED gives
\* LOCKED and 0.0 and UNLOCKED gives OPEN and 100.0, connect succeeding; any
\* other answer to STATUS makes connect fail and leaves status and position
\* as they were.
C10_FirstEstimateOrFailure ==
    /\ version = None
       => \A o \in Answers :
              /\ Locked(o)
                 => ( /\ FirstStatus(o).ret = "True"
                      /\ FirstStatus(o).s.status = "LOCKED"
                      /\ FirstStatus(o).s.position = Pct(0) )
              /\ o = "UNLOCKED"
                 => ( /\ FirstStatus(o).ret = "True"
                      /\ FirstStatus(o).s.status = "OPEN"
                      /\ FirstStatus(o).s.position = Pct(100) )
              /\ ( ~Locked(o) /\ o # "UNLOCKED" )
                 => ( FirstStatus(o).ret = "False" /\ SameEstimate(FirstStatus(o)) )
    /\ ( op = "connect" /\ ret = "True" /\ sent = << "DEVICE", "VERSION", "STATUS" >> )
       => \/ _status = "LOCKED" /\ _position = Pct(0)
          \/ _status = "OPEN" /\ _position = Pct(100)

C10_Witness ==
    /\ op = "connect"
    /\ ret = "True"
    /\ sent = << "DEVICE", "VERSION", "STATUS" >>
    /\ _status = "OPEN"
    /\ _position = Pct(100)

\* C11: connect() on an initialised engine whose transport is open returns
\* success, sends no command and leaves status, position, target position
\* and timestamp as they were.
C11_ConnectIdempotent ==
    ( version # None /\ connection = "open" )
    => \A r \in connect(Self) :
           /\ r.ret = "True"
           /\ r.s.sent = << >>
           /\ SameEstimate(r)
           /\ r.s.target = _target_position

C11_Witness ==
    /\ op = "connect"
    /\ ret = "True"
    /\ sent = << >>
    /\ connection = "open"
    /\ version # None
    /\ _status \in Moving
    /\ _target_position # NoNumber
    /\ Result(Self, "True") \in connect(Self)

\* class AXAStatus has no member DISCONNECTED: the status of an engine that
\* has never had a link is None.
DISCONNECTED == None

\* C12: the engine is created with status DISCONNECTED and position 0.0, and
\* its status is DISCONNECTED after disconnect() and after the loss of the
\* link.
C12_DisconnectedWithoutLink ==
    [][ /\ op = "init" => ( _status = DISCONNECTED /\ _position = Pct(0) )
        /\ ( \/ op' = "disconnect"
             \/ connection = "open" /\ connection' = "closed" )
           => _status' = DISCONNECTED ]_vars

\* C13: sync_status() on an engine whose link cannot be established returns
\* normally (the [status, position] pair) in every engine state, with the
\* status the estimator gives without the device.
C13_SyncOfflineReturns ==
    [][ ( /\ op' = "sync_status"
          /\ connection # "open"
          /\ connection' # "open"
          /\ sent' = << >> )
        => ( /\ ret' = "VALUE"
             /\ _status' = status(Self, "LINKDOWN").s.status ) ]_vars

\* A sync_status() call of an initialised engine is the step under way (the
\* presumed state it compares is then the state before the call).
Synced == op' = "sync_status" /\ version # None

\* The raw status read agrees with the presumed resting state.
Agrees(raw) ==
    \/ _status = "LOCKED" /\ Locked(raw)
    \/ _status = "OPEN" /\ raw = "UNLOCKED"

\* The call has changed nothing of the estimate and has sent STATUS only.
Untouched ==
    /\ UNCHANGED << _status, _position, _target_position, _timestamp >>
    /\ sent' = << "STATUS" >>

\* C14, as claimed: when the raw status agrees with the presumed resting
\* state, sync_status() changes none of status, position, target position
\* and timestamp and sends no movement command.
C14_AgreementMutatesNothing ==
    [][ ( Synced /\ Agrees(raw_state') ) => Untouched ]_vars

\* C14, amended: the same when no target position is pending or the pending
\* target is the position.  (A pending target that differs is pursued by the
\* status() poll that ends sync_status(): OPEN or CLOSE is sent.)
C14_AgreementWithoutTarget ==
    [][ ( /\ Synced
          /\ Agrees(raw_state')
          /\ _target_position \in { NoNumber, Some(_position) } )
        => Untouched ]_vars

C14_Witness ==
    /\ op = "sync_status"
    /\ raw_state = "UNLOCKED"
    /\ sent = << "STATUS" >>
    /\ _status = "OPEN"
    /\ _position = Pct(100)
    /\ _target_position = NoNumber
    /\ _timestamp = NoNumber

\* C15, as claimed: whatever target position is pending, raw locked with
\* presumed OPEN gives LOCKING backdated by time_close and raw unlocked with
\* presumed LOCKED gives OPENING backdated by time_unlock, no command sent.
C15_ContradictionStartsPhase ==
    [][ Synced =>
        /\ ( _status = "OPEN" /\ Locked(raw_state') )
           => ( /\ _status' = "LOCKING"
                /\ _timestamp' = Some(now - _time_close)
                /\ sent' = << "STATUS" >> )
        /\ ( _status = "LOCKED" /\ raw_state' = "UNLOCKED" )
           => ( /\ _status' = "OPENING"
                /\ _timestamp' = Some(now - _time_unlock)
                /\ sent' = << "STATUS" >> ) ]_vars

\* C15, amended: that holds when no target position is pending.  With a
\* target pending the estimate snaps to LOCKED/0.0 (raw locked, presumed
\* OPEN) or to OPEN/100.0 (raw unlocked, presumed LOCKED), from where the
\* poll that ends sync_status() pursues the target: the call ends LOCKED or
\* UNLOCKING, respectively OPEN or CLOSING.
C15_ContradictionWithoutTarget ==
    [][ Synced =>
        /\ ( _target_position = NoNumber /\ _status = "OPEN" /\ Locked(raw_state') )
           => ( /\ _status' = "LOCKING"
                /\ _timestamp' = Some(now - _time_close)
                /\ sent' = << "STATUS" >> )
        /\ ( _target_position = NoNumber /\ _status = "LOCKED" /\ raw_state' = "UNLOCKED" )
           => ( /\ _status' = "OPENING"
                /\ _timestamp' = Some(now - _time_unlock)
                /\ sent' = << "STATUS" >> )
        /\ ( _target_position # NoNumber /\ _status = "OPEN" /\ Locked(raw_state') )
           => ( /\ Reconcile(Self, raw_state').status = "LOCKED"
                /\ Reconcile(Self, raw_state').position = Pct(0)
                /\ _status' \in { "LOCKED", "UNLOCKING" } )
        /\ ( _target_position # NoNumber /\ _status = "LOCKED" /\ raw_state' = "UNLOCKED" )
           => ( /\ Reconcile(Self, raw_state').status = "OPEN"
                /\ Reconcile(Self, raw_state').position = Pct(100)
                /\ _status' \in { "OPEN", "CLOSING" } ) ]_vars

C15_Witness ==
    /\ op = "sync_status"
    /\ Locked(raw_state)
    /\ sent = << "STATUS" >>
    /\ _status = "LOCKING"
    /\ Age = _time_close
    /\ _target_position = NoNumber
    /\ ret = "VALUE"

\* C16: when sync_status() reads raw locked while the presumed status is
\* UNLOCKING or LOCKING (and the clock has not ended that phase), the
\* position it leaves is 0.0 and the status is unchanged.
C16_ClampWhileLatching ==
    [][ ( /\ Synced
          /\ Locked(raw_state')
          /\ \/ _status = "UNLOCKING" /\ Age < _time_unlock
             \/ _status = "LOCKING" /\ Age <= _time_close + _time_lock )
        => ( _position' = Pct(0) /\ _status' = _status ) ]_vars

\* The call has returned a response line.
Responded == round_trip.pc = "done" /\ round_trip.response \notin SendErrors \cup { None }

\* The lines read so far that are not blank.
NonBlank == { i \in 1 .. Len(round_trip.read) : strip(round_trip.read[i]) # "" }

\* C17: _send_command returns a response only after it has read a non-blank
\* line equal to the uppercased command, and that response is the next
\* non-blank line; if the first non-blank line read differs from the
\* uppercased command, the call raises InvallidResponseError with the command
\* and that line and returns nothing.
C17_EchoBeforeResponse ==
    /\ Responded
       => /\ round_trip.echo_received
          /\ \E i \in NonBlank :
                 /\ \A j \in NonBlank : j >= i
                 /\ strip(round_trip.read[i]) = upper(round_trip.command)
                 /\ i < Len(round_trip.read)
                 /\ NonBlank = { i, Len(round_trip.read) }
          /\ round_trip.response = strip(round_trip.read[Len(round_trip.read)])
    /\ ( /\ round_trip.pc = "done"
         /\ \E i \in NonBlank :
                /\ \A j \in NonBlank : j >= i
                /\ round_trip.read[i] # ReadError
                /\ strip(round_trip.read[i]) # upper(round_trip.command) )
       => /\ round_trip.response = "InvallidResponseError"
          /\ round_trip.observed = strip(round_trip.read[Len(round_trip.read)])
          /\ NonBlank = { Len(round_trip.read) }

C17_Witness ==
    /\ round_trip.pc = "done"
    /\ round_trip.written = << "STATUS" >>
    /\ round_trip.read = << "", "FOO" >>
    /\ round_trip.response = "InvallidResponseError"
    /\ round_trip.observed = "FOO"
    /\ ~round_trip.busy

\* C18: a _send_command that finds another command in flight (busy) for
\* longer than the busy timeout raises TooBusyError, and has then written
\* nothing to the transport (and has left the flag to the command in
\* flight).
C18_TooBusy ==
    [][ /\ ( /\ round_trip.pc = "busy_wait"
             /\ round_trip.busy
             /\ round_trip'.busy
             /\ round_trip.waited > _BUSY_TIMEOUT * SleepsPerSecond )
           => ( round_trip'.pc = "done" /\ round_trip'.response = "TooBusyError" )
        /\ round_trip'.response = "TooBusyError"
           => ( /\ round_trip'.written = << >>
                /\ round_trip'.read = << >>
                /\ round_trip'.busy
                /\ round_trip.waited > _BUSY_TIMEOUT * SleepsPerSecond ) ]_vars

C18_Witness ==
    /\ round_trip.pc = "done"
    /\ round_trip.response = "TooBusyError"
    /\ round_trip.waited = _BUSY_TIMEOUT * SleepsPerSecond + 1
    /\ round_trip.written = << >>
    /\ round_trip.busy

\* The transport has failed under the call: the write raised, or the last
\* readline did.
TransportFailed ==
    \/ round_trip.link = "write_fails" /\ round_trip.written # << >>
    \/ /\ round_trip.read # << >>
       /\ round_trip.read[Len(round_trip.read)] = ReadError

\* C19: a transport write or read failure during _send_command reaches the
\* caller as a connection error, which is neither a device response nor the
\* `no response` (None) of an offline device.
C19_FailureSurfaced ==
    ( round_trip.pc = "done" /\ TransportFailed )
    => round_trip.response = "AXAConnectionError"

\* C20: calibrate() always terminates, whatever the device does: it observes
\* a locked raw status or gives up once the watchdog has elapsed.
C20_CalibrateTerminates == <>( calibration.pc = "done" )

\* calibrate() has returned the time it measured.
Calibrated == calibration.pc = "done" /\ calibration.ret = "VALUE"

\* C21: a successful calibrate() stores the measured elapsed time as both
\* time_open and time_close; a failed calibrate() (close refused, or no lock
\* within the watchdog) changes no field of the motion profile.
C21_CalibrateStoresBoth ==
    /\ Calibrated
       => ( /\ calibration.time_open = Some(calibration.elapsed)
            /\ calibration.time_close = Some(calibration.elapsed) )
    /\ ( calibration.pc = "done" /\ ~Calibrated )
       => ( calibration.time_open = NoNumber /\ calibration.time_close = NoNumber )

\* C22: a position() call made during a moving phase returns the position
\* interpolated for the current clock value, the value a status() call at
\* that instant returns.
C22_PositionRecomputes ==
    [][ ( op' = "position" /\ _status \in Moving /\ _timestamp # NoNumber )
        => /\ position(Self).value = status(Self, "OK").s.position
           /\ _position' = status(Self, "OK").s.position ]_vars

\* What a caller can tell of a result: status, position, target position,
\* phase timestamp and return value.
Observed(r) == << r.s.status, r.s.position, r.s.target, r.s.timestamp, r.ret >>

\* sync_status() of an engine that has connected, the device answering
\* STATUS with `answer`: what the caller can tell, over every behaviour of
\* the device afterwards.
SyncAnswered(s, answer) == { Observed(r) : r \in ReturnStatus(SyncRaw(s, answer)) }

\* The turns calibrate's loop can be at.
Pollings ==
    { [NoCalibration EXCEPT !.pc = "polling", !.elapsed = e, !.turns = k] :
          e \in 0 .. ElapsedCap, k \in 0 .. 1 }

\* A turn of calibrate's loop ends the same for the two replies.
CalibrateWeakAsStrong ==
    \A cal \in Pollings, d \in 1 .. MaxRoundTrip :
        CalibrateTurn(cal, "WEAK_LOCKED", cal.elapsed + d)
            = CalibrateTurn(cal, "STRONG_LOCKED", cal.elapsed + d)

\* C23: WEAK_LOCKED is indistinguishable from STRONG_LOCKED: in every engine
\* state, the STATUS step of a first connect, sync_status and a turn of
\* calibrate's loop give the same status, position, target position, phase
\* timestamp and return value (and the same measured time) for a
\* WEAK_LOCKED reply as for a STRONG_LOCKED reply.
C23_WeakAsStrong ==
    /\ Observed(FirstStatus("WEAK_LOCKED")) = Observed(FirstStatus("STRONG_LOCKED"))
    /\ \A c \in connect(Self) :
           c.ret = "True"
           => SyncAnswered(c.s, "WEAK_LOCKED") = SyncAnswered(c.s, "STRONG_LOCKED")
    /\ _send_command(Self, "STATUS", "WEAK_LOCKED").s
           = _send_command(Self, "STATUS", "STRONG_LOCKED").s
    /\ CalibrateWeakAsStrong

C23_Witness ==
    /\ op = "sync_status"
    /\ raw_state = "WEAK_LOCKED"
    /\ ret = "VALUE"
    /\ sent = << "STATUS" >>
    /\ _status = "LOCKING"
    /\ _timestamp = Some(now - _time_close)

\* The position a poll leaves is the fraction num/den of the full travel.
PositionIs(num, den) == _position' * den = Pct(100) * num

\* The poll has passed a pending target and has sent STOP.
StoppedAtTarget ==
    /\ _target_position # NoNumber
    /\ _position' > Val(_target_position)
    /\ _status' = "STOPPED"
    /\ sent' = << "STOP" >>

\* The three interpolation statements of C24 that hold as claimed.
OpeningFormulas ==
    /\ ( _status = "UNLOCKING" /\ Age < _time_unlock )
       => ( _status' = "UNLOCKING" /\ PositionIs(Age, _time_unlock) )
    /\ ( _status = "UNLOCKING" /\ Age = _time_unlock )
       => ( _status' = "OPENING" /\ _position' = Pct(0) )
    /\ ( _status \in { "UNLOCKING", "OPENING" } /\ Age > _time_unlock + _time_open )
       => ( _status' = "OPEN" /\ _position' = Pct(100) )

\* A poll in OPENING before the end of the opening time.
OpeningPoll ==
    Polled /\ _status = "OPENING" /\ _time_unlock <= Age /\ Age < _time_unlock + _time_open

\* C24, as claimed: with t the time since the phase start, a poll in
\* UNLOCKING with t < time_unlock gives position 100*t/time_unlock and keeps
\* UNLOCKING; the poll at t = time_unlock switches to OPENING with position
\* 0.0; a poll in OPENING with time_unlock <= t < time_unlock + time_open
\* gives 100*(t - time_unlock)/time_open and keeps OPENING; after the full
\* opening time the status is OPEN and the position 100.0.
C24_OpeningInterpolation ==
    [][ /\ Polled => OpeningFormulas
        /\ OpeningPoll
           => ( PositionIs(Age - _time_unlock, _time_open) /\ _status' = "OPENING" ) ]_vars

\* C24, amended: the same, except that the poll in OPENING keeps OPENING
\* only as long as the position it computes has not passed a pending
\* target: once it has, the poll sends STOP and the status is STOPPED when
\* the device acknowledges (the position is the interpolated one).
C24_OpeningInterpolationToTarget ==
    [][ /\ Polled => OpeningFormulas
        /\ OpeningPoll
           => ( /\ PositionIs(Age - _time_unlock, _time_open)
                /\ _status' = "OPENING" \/ StoppedAtTarget ) ]_vars

C24_Witness ==
    /\ op = "status"
    /\ _status = "OPENING"
    /\ Age = _time_unlock + _time_open \div 2
    /\ _position = Pct(50)
    /\ _target_position = Some(Pct(100))

\* The position a poll leaves is 100 less the fraction num/den of the travel.
PositionIsDown(num, den) == ( Pct(100) - _position' ) * den = Pct(100) * num

\* The poll has come below a pending target and has sent STOP.
StoppedBelowTarget ==
    /\ _target_position # NoNumber
    /\ _position' < Val(_target_position)
    /\ _status' = "STOPPED"
    /\ sent' = << "STOP" >>

\* The interpolation statements of C25 that hold as claimed.
ClosingFormulas ==
    /\ ( _status = "CLOSING" /\ Age = _time_close )
       => ( _status' = "LOCKING" /\ Abs(_position' - Pct(100)) <= Pct(1) )
    /\ ( _status = "LOCKING" /\ Age <= _time_close + _time_lock )
       => PositionIsDown(Age - _time_close, _time_lock)
    /\ ( _status \in { "CLOSING", "LOCKING" } /\ Age > _time_close + _time_lock )
       => ( _status' = "LOCKED" /\ _position' = Pct(0) )

\* A poll in CLOSING before the end of the closing time.
ClosingPoll == Polled /\ _status = "CLOSING" /\ Age < _time_close

\* C25, as claimed: a poll in CLOSING with t < time_close gives position
\* 100 - 100*t/time_close and keeps CLOSING; the poll at t = time_close
\* switches to LOCKING with the position restarting at 100 (within 1); a
\* poll in LOCKING gives 100 - 100*(t - time_close)/time_lock; after the full
\* locking time the status is LOCKED and the position 0.0.
C25_ClosingInterpolation ==
    [][ /\ Polled => ClosingFormulas
        /\ ClosingPoll
           => ( PositionIsDown(Age, _time_close) /\ _status' = "CLOSING" ) ]_vars

\* C25, amended: the same, except that the poll in CLOSING keeps CLOSING
\* only as long as the position it computes has not come below a pending
\* target: once it has, the poll sends STOP and the status is STOPPED when
\* the device acknowledges (the position is the interpolated one).
C25_ClosingInterpolationToTarget ==
    [][ /\ Polled => ClosingFormulas
        /\ ClosingPoll
           => ( /\ PositionIsDown(Age, _time_close)
                /\ _status' = "CLOSING" \/ StoppedBelowTarget ) ]_vars

C25_Witness ==
    /\ op = "status"
    /\ _status = "LOCKING"
    /\ Age = _time_close + _time_lock \div 2
    /\ _position = Pct(50)
    /\ _target_position = NoNumber

\* The engine after open(), respectively close(), which the device
\* acknowledges.
Opened == open(Self, "OK")

Closed == close(Self, "OK")

\* A status() poll of engine s with zero elapsed time reports position p,
\* whatever the device does.
PollReports(s, p) == \A o \in Outcomes : status(s, o).s.position = p

\* open() resumes from STOPPED without a jump, the phase start backdated by
\* time_unlock + time_open*(p/100).
ResumesOpening ==
    ( _status = "STOPPED" /\ Opened.ret = "True" )
    => /\ Opened.s.status = "OPENING"
       /\ ( now - Val(Opened.s.timestamp) - _time_unlock ) * Pct(100) = _time_open * _position
       /\ PollReports(Opened.s, _position)

\* close() resumes from STOPPED without a jump, the phase start backdated by
\* time_close*((100-p)/100).
ResumesClosing ==
    ( _status = "STOPPED" /\ Closed.ret = "True" )
    => /\ Closed.s.status = "CLOSING"
       /\ ( now - Val(Closed.s.timestamp) ) * Pct(100) = _time_close * ( Pct(100) - _position )
       /\ PollReports(Closed.s, _position)

\* C26, as claimed: after open() or close() is acknowledged in status
\* STOPPED at position p, a poll with zero elapsed time reports position p,
\* the phase start being backdated by time_unlock + time_open*(p/100) for
\* open and by time_close*((100-p)/100) for close.
C26_ResumeContinuous == ResumesOpening /\ ResumesClosing

\* C26, amended: that holds for open() at every p and for close() at p > 0.
\* (After close() at p <= 0 the phase start is backdated by the whole
\* closing time or more: the poll ends the CLOSING phase and reports LOCKING,
\* whose position restarts from 100.0.)
C26_ResumeContinuousAboveZero ==
    /\ ResumesOpening
    /\ _position > Pct(0) => ResumesClosing
    /\ ( _status = "STOPPED" /\ _position = Pct(0) /\ Closed.ret = "True" )
       => ( /\ status(Closed.s, "OK").s.status = "LOCKING"
            /\ PollReports(Closed.s, Pct(100)) )

C26_Witness ==
    /\ op = "close"
    /\ ret = "True"
    /\ sent = << "CLOSE" >>
    /\ _status = "CLOSING"
    /\ _position = Pct(50)
    /\ Age = _time_close \div 2
    /\ PollReports(Self, Pct(50))

\* The call has got past the busy wait (it has set the flag and gone on to
\* write) and has ended.
EndedPastBusyWait == round_trip.pc = "done" /\ round_trip.written # << >>

\* The ways a call that got past the busy wait ends: a response, one of the
\* two protocol errors, or None after a transport error.
ExitPaths == { "response", "EmptyResponseError", "InvallidResponseError", "transport error" }

ExitPath ==
    IF round_trip.response \in { "EmptyResponseError", "InvallidResponseError" }
    THEN round_trip.response
    ELSE IF round_trip.response = None THEN "transport error"
    ELSE "response"

\* C27: every _send_command that got past the busy wait leaves busy false
\* when it returns or fails, on every exit path: normal response,
\* EmptyResponseError, InvallidResponseError and transport error.
C27_BusyCleared ==
    EndedPastBusyWait => ( ~round_trip.busy /\ ExitPath \in ExitPaths )

C27_Witness ==
    /\ EndedPastBusyWait
    /\ ExitPath = "transport error"
    /\ round_trip.link = "write_fails"
    /\ round_trip.read = << >>
    /\ round_trip.waited > 0
    /\ ~round_trip.busy

\* The command of thread c is in flight: written, its response not yet read.
InFlight(c) == callers.pc[c] = "read"

\* C28: with two callers invoking _send_command concurrently on the same
\* engine, there is no reachable state in which both are between writing
\* their command and finishing the read of its response.
C28_OneInFlight == \A c, d \in Callers : ( InFlight(c) /\ InFlight(d) ) => c = d

\* The lines i .. i + MaxEmptyLines read by the call are all blank: more than
\* MaxEmptyLines consecutive blank lines.
BlankRun(i) ==
    /\ i >= 1
    /\ i + MaxEmptyLines <= Len(round_trip.read)
    /\ \A j \in i .. i + MaxEmptyLines : strip(round_trip.read[j]) = ""

TooManyBlanks == \E i \in 1 .. Len(round_trip.read) : BlankRun(i)

\* The reset attempt: a blank line written after the command.
ResetAttempted == round_trip.written = << upper(round_trip.command), "" >>

\* What C29 states of the blank lines that are tolerated and of the reset:
\* a blank line read after at most MaxEmptyLines blank lines in a row leaves
\* the call reading; a call ends with more than MaxEmptyLines blank lines in
\* a row only after the reset attempt and without a response; and
\* EmptyResponseError is raised in no other case.
BlankLinesTolerated ==
    /\ ( round_trip.pc = "read" /\ ~TooManyBlanks )
       => round_trip.empty_line_count <= MaxEmptyLines
    /\ ( round_trip.pc = "done" /\ TooManyBlanks )
       => ( ResetAttempted /\ ~Responded /\ BlankRun(Len(round_trip.read) - MaxEmptyLines) )
    /\ round_trip.response = "EmptyResponseError" => TooManyBlanks

MovementCommands == { "OPEN", "CLOSE" }

\* C30: after stop() is called while the status is LOCKING, with only
\* status() or sync_status() polls following and the device reporting
\* locked, the engine sends no OPEN (nor any other movement command) on its
\* own, and the window stays LOCKED/0.0 once locked.
C30_StaysLockedAfterStop ==
    [][ /\ \A i \in 1 .. Len(sent') : sent'[i] \notin MovementCommands
        /\ _status = "LOCKED" => ( _status' = "LOCKED" /\ _position' = Pct(0) ) ]_vars

\* C31: every response returned by _send_command is the line the device
\* produced in answer to this invocation, never a line left in the transport
\* by an earlier invocation, for a device that echoes each command and then
\* answers it, possibly late (after an earlier call has failed with
\* EmptyResponseError or InvallidResponseError).
C31_ResponseOfThisCall ==
    Responded => ( replies.source = replies.call /\ round_trip.response = Answer(round_trip.command) )

\* C32: a movement command acknowledged OK always redirects the estimator:
\* right after open() returns success the status is UNLOCKING, OPENING or
\* OPEN, and right after close() returns success it is CLOSING, LOCKING or
\* LOCKED, from every starting status.
C32_AcknowledgedRedirects ==
    [][ /\ ( op' = "open" /\ ret' = "True" /\ _status \in AXAStatus )
           => _status' \in { "UNLOCKING", "OPENING", "OPEN" }
        /\ ( op' = "close" /\ ret' = "True" /\ _status \in AXAStatus )
           => _status' \in { "CLOSING", "LOCKING", "LOCKED" } ]_vars

\* stop() has returned success after the device acknowledged STOP.
StopAcknowledged == op' = "stop" /\ ret' = "True" /\ sent' = << "STOP" >>

\* C33 as stated: after a stop() that the device acknowledged with OK while
\* the status was UNLOCKING, OPENING or CLOSING, the status is STOPPED, and
\* status() polls of a stopped window change neither status nor position.
C33_StopGivesStopped ==
    [][ /\ ( StopAcknowledged /\ _status \in { "UNLOCKING", "OPENING", "CLOSING" } )
           => _status' = "STOPPED"
        /\ ( Polled /\ _status = "STOPPED" /\ _target_position = NoNumber )
           => ( _status' = _status /\ _position' = _position ) ]_vars

\* C33 as the code has it: a stop() acknowledged with OK while the status was
\* OPENING or CLOSING gives STOPPED with the position kept and the target
\* cleared; acknowledged while UNLOCKING it clears the target and leaves the
\* status UNLOCKING; and a status() poll of a stopped window without target
\* changes neither status nor position and writes nothing.
C33_StopGivesStoppedWhenTravelling ==
    [][ /\ ( StopAcknowledged /\ _status \in { "OPENING", "CLOSING" } )
           => ( /\ _status' = "STOPPED"
                /\ _position' = _position
                /\ _target_position' = NoNumber )
        /\ ( StopAcknowledged /\ _status = "UNLOCKING" )
           => ( _status' = "UNLOCKING" /\ _target_position' = NoNumber )
        /\ ( Polled /\ _status = "STOPPED" /\ _target_position = NoNumber )
           => ( /\ _status' = _status
                /\ _position' = _position
                /\ _target_position' = NoNumber
                /\ sent' = << >> ) ]_vars

\* C33: a window stopped half-way by an acknowledged stop().
C33_Witness ==
    /\ op = "stop"
    /\ ret = "True"
    /\ sent = << "STOP" >>
    /\ _status = "STOPPED"
    /\ _target_position = NoNumber
    /\ _position > Pct(0)
    /\ _position < Pct(100)

\* set_close_time has replaced the class profile.
Degraded == profile # ClassProfile

\* C34: in the degraded profile produced by set_close_time(c) (time_unlock =
\* time_open = time_lock = 0, time_close = c) a status() poll never fails
\* with an arithmetic error.
C34_DegradedPollsNeverFail ==
    ( Degraded /\ op = "status" ) => ret # "ZeroDivisionError"

\* C35: at every public method boundary, status LOCKED implies position
\* 0.0 and status OPEN implies position 100.0.
C35_RestingPositions ==
    /\ _status = "LOCKED" => _position = Pct(0)
    /\ _status = "OPEN" => _position = Pct(100)

\* C35: a poll after the end of a followed phase has found the window open,
\* or locked.
C35_Witness ==
    /\ op = "status"
    /\ ret = "VALUE"
    /\ _timestamp # NoNumber
    /\ \/ _status = "OPEN" /\ Age > _time_unlock + _time_open
       \/ _status = "LOCKED" /\ Age > _time_close + _time_lock

\* disconnect() has released the transport.
Released == connection = None

\* C36 as stated: disconnect() always returns success and releases the
\* transport, from any state and when repeated; afterwards the transport
\* stays released, every later connect() returns failure and every later
\* open(), close() or stop() writes nothing and returns failure.
C36_OfflineForGood ==
    [][ /\ op' = "disconnect" => ( ret' = "True" /\ connection' = None )
        /\ Released => ( connection' = None /\ sent' = << >> )
        /\ ( Released /\ op' \in { "connect", "open", "close", "stop" } )
           => ret' = "False" ]_vars

\* C36 as the code has it: the same, except that a later stop() called
\* while the status is LOCKING returns success (it writes nothing in any
\* status), and a later set_position() writes nothing and returns None.
C36_OfflineForGoodButStopLocking ==
    [][ /\ op' = "disconnect" => ( ret' = "True" /\ connection' = None )
        /\ Released => ( connection' = None /\ sent' = << >> )
        /\ ( Released /\ op' \in { "connect", "open", "close" } ) => ret' = "False"
        /\ ( Released /\ op' = "stop" )
           => ret' = ( IF _status = "LOCKING" THEN "True" ELSE "False" )
        /\ ( Released /\ op' = "set_position" ) => ret' = "None" ]_vars

\* C36: an engine that had connected is asked to open after disconnect().
C36_Witness ==
    /\ Released
    /\ version = "set"
    /\ op = "open"
    /\ ret = "False"
    /\ sent = << >>
====
